---- MODULE Spec2Model ----
(***************************************************************************)
(* Model of console_logging.py, the "Logging" language of the host's      *)
(* scripting console.                                                      *)
(*                                                                         *)
(* Text is a sequence of characters; every character is a one-character    *)
(* string.  A literal message of the source ('*** Logger already being     *)
(* watched', 'WARNING', ...) is carried as one element: it holds no        *)
(* newline, tab, space or dot, or is never split, so the str operations    *)
(* used on it (split, replace, concatenation) treat it as they would its   *)
(* characters.                                                             *)
(***************************************************************************)
EXTENDS Integers, Sequences, FiniteSets, TLC

VARIABLES
    loggerDict,        \* logging.Logger.manager.loggerDict: its keys, in insertion order
    loggers,           \* the registry's values: kind, level and handlers of every key
    window_manager,    \* hash(bpy.context.window_manager)
    get_console_attrs, \* get_console.consoles and get_console.consoles_namespace_hash
    cmds,              \* every LoggingCmd instance created so far: _handlers and stdout
    scrollback,        \* the host's scrollback buffer of every console region
    history,           \* sc.history[-1]: body and current_character of the input line
    ret,               \* how the last operator call ended: its return value or its exception
                       \* ("none" before the first call and while the user types)
    written            \* every string passed to ScrollBackIO.write so far, concatenated

vars == <<loggerDict, loggers, window_manager, get_console_attrs, cmds,
          scrollback, history, ret, written>>

----------------------------------------------------------------------------
(* Bounds of the model *)

\* longest string one write call is given
MaxStr == 2
\* most characters written to one ScrollBackIO in a run
MaxWritten == 4

----------------------------------------------------------------------------
(* Characters and str operations *)

NL == "\n"
TAB == "\t"
SP == " "
DOT == "."

\* the characters write calls are given: a letter, a newline, a tab
IOAlphabet == {"x", NL, TAB}

\* all strings over alphabet A of length at most n
StrUpTo(A, n) == UNION {[1..k -> A] : k \in 0..n}

\* x in s
Contains(s, x) == \E i \in 1..Len(s) : s[i] = x

\* s[i:] with a 0-based start, as Python slices
From(s, i) == SubSeq(s, i + 1, Len(s))

\* s[:i] with a 0-based end
UpTo(s, i) == SubSeq(s, 1, i)

\* str.startswith
startswith(s, p) == Len(p) <= Len(s) /\ SubSeq(s, 1, Len(p)) = p

\* str.split(sep): the pieces between the occurrences of sep, at least one piece
RECURSIVE split(_, _)
split(s, sep) ==
    IF ~Contains(s, sep) THEN <<s>>
    ELSE LET i == CHOOSE i \in 1..Len(s) : s[i] = sep /\ \A j \in 1..(i - 1) : s[j] # sep
         IN <<SubSeq(s, 1, i - 1)>> \o split(SubSeq(s, i + 1, Len(s)), sep)

\* str.split(sep, 1): cut at the first sep only
split1(s, sep) ==
    IF ~Contains(s, sep) THEN <<s>>
    ELSE LET i == CHOOSE i \in 1..Len(s) : s[i] = sep /\ \A j \in 1..(i - 1) : s[j] # sep
         IN <<SubSeq(s, 1, i - 1), SubSeq(s, i + 1, Len(s))>>

\* rsplit cutting at the first newline instead of the last
rsplit_at_first(s) == split1(s, NL)

\* str.rsplit('\n', 1) of a string that holds a newline: cut at the last newline
rsplit(s) ==
    LET i == CHOOSE i \in 1..Len(s) : s[i] = NL /\ \A j \in (i + 1)..Len(s) : s[j] # NL
    IN <<SubSeq(s, 1, i - 1), SubSeq(s, i + 1, Len(s))>>

\* l.replace("\t", "    ")
RECURSIVE replace_tab(_)
replace_tab(s) ==
    IF s = <<>> THEN <<>>
    ELSE (IF Head(s) = TAB THEN <<SP, SP, SP, SP>> ELSE <<Head(s)>>) \o replace_tab(Tail(s))

\* sep.join(pieces)
RECURSIVE join(_, _)
join(pieces, sep) ==
    IF pieces = <<>> THEN <<>>
    ELSE IF Len(pieces) = 1 THEN pieces[1]
    ELSE pieces[1] \o sep \o join(Tail(pieces), sep)

----------------------------------------------------------------------------
(* add_scrollback and ScrollBackIO *)

\* add_scrollback(text, text_type): the lines it appends, one scrollback_append per piece
add_scrollback(text, text_type) ==
    LET pieces == split(text, NL)
    IN [i \in 1..Len(pieces) |-> [text |-> replace_tab(pieces[i]), type |-> text_type]]

\* ScrollBackIO.__init__
ScrollBackIO(context) == [context |-> context, type |-> "OUTPUT", buffer |-> <<>>]

\* ScrollBackIO.write(s): the object after the call and the lines it appended
write(io, s) ==
    LET b == io.buffer \o s
    IN IF Contains(b, NL)
       THEN [io |-> [io EXCEPT !.buffer = rsplit(b)[2]],
             lines |-> add_scrollback(rsplit(b)[1], io.type)]
       ELSE [io |-> [io EXCEPT !.buffer = b], lines |-> <<>>]

\* a sequence of write calls on one ScrollBackIO, in order
RECURSIVE writes(_, _)
writes(io, ss) ==
    IF ss = <<>> THEN [io |-> io, lines |-> <<>>]
    ELSE LET first == write(io, Head(ss))
             rest == writes(first.io, Tail(ss))
         IN [io |-> rest.io, lines |-> first.lines \o rest.lines]

\* ScrollBackIO.writeline(s): write(s) then write('\n')
writeline(s) == <<s, <<NL>>>>

----------------------------------------------------------------------------
(* The logger registry: logging.Logger.manager.loggerDict *)

\* logger names of the model
NameA == <<"a">>
NameAB == <<"a", DOT, "b">>
NameB == <<"b">>
NameBA == <<"b", DOT, "a">>
NameC == <<"c">>
NameABA == <<"a", DOT, "b", DOT, "a">>

\* the keys of an ordered dict kept as a sequence
Keys(d) == {d[i] : i \in 1..Len(d)}

\* the proper dotted prefixes of a name, longest first (the order _fixupParents walks)
RECURSIVE ProperPrefixes(_)
ProperPrefixes(name) ==
    IF ~Contains(name, DOT) THEN <<>>
    ELSE LET i == CHOOSE i \in 1..Len(name) :
                      name[i] = DOT /\ \A j \in (i + 1)..Len(name) : name[j] # DOT
             parent == SubSeq(name, 1, i - 1)
         IN <<parent>> \o ProperPrefixes(parent)

\* a freshly created Logger: level NOTSET, no handlers
NewLogger == [kind |-> "Logger", level |-> 0, handlers |-> <<>>]

\* a PlaceHolder: a parent name with no real logger
NewPlaceHolder == [kind |-> "PlaceHolder", level |-> 0, handlers |-> <<>>]

\* the placeholders _fixupParents inserts for the prefixes ps of a new logger:
\* it walks up from the longest prefix and stops at the first real Logger
RECURSIVE fixupParents(_, _)
fixupParents(reg, ps) ==
    IF ps = <<>> THEN reg
    ELSE IF Head(ps) \notin Keys(reg.dict)
         THEN fixupParents([dict |-> Append(reg.dict, Head(ps)),
                            objs |-> reg.objs @@ (Head(ps) :> NewPlaceHolder)], Tail(ps))
         ELSE IF reg.objs[Head(ps)].kind = "Logger" THEN reg
         ELSE fixupParents(reg, Tail(ps))

\* logging.getLogger(name) on registry reg: the registry afterwards
getLogger(reg, name) ==
    IF name \in Keys(reg.dict)
    THEN IF reg.objs[name].kind = "PlaceHolder"
         THEN [reg EXCEPT !.objs[name] = NewLogger]
         ELSE reg
    ELSE fixupParents([dict |-> Append(reg.dict, name),
                       objs |-> reg.objs @@ (name :> NewLogger)], ProperPrefixes(name))

\* the registry after a sequence of getLogger calls on an empty one
RECURSIVE RegistryOf(_)
RegistryOf(calls) ==
    IF calls = <<>> THEN [dict |-> <<>>, objs |-> <<>>]
    ELSE getLogger(RegistryOf(SubSeq(calls, 1, Len(calls) - 1)), calls[Len(calls)])

\* LoggingCmd.get_loggers_flat: the keys of the registry
get_loggers_flat == loggerDict

\* the real Logger ancestors of a logger, nearest first: its parent chain below root
LoggerAncestors(L, name) ==
    LET ps == ProperPrefixes(name)
    IN SelectSeq(ps, LAMBDA p : p \in DOMAIN L /\ L[p].kind = "Logger")

----------------------------------------------------------------------------
(* LoggingCmd.get_loggers: the nested name hierarchy *)

\* the first dotted segment of each name, in order of first appearance (dict key order)
RECURSIVE Tops(_, _)
Tops(flat, seen) ==
    IF flat = <<>> THEN <<>>
    ELSE LET top == split1(Head(flat), DOT)[1]
         IN IF top \in seen THEN Tops(Tail(flat), seen)
            ELSE <<top>> \o Tops(Tail(flat), seen \cup {top})

\* loggers[top] after the first loop of unflatten: the remainders of the dotted names under top
RECURSIVE Subs(_, _)
Subs(flat, top) ==
    IF flat = <<>> THEN <<>>
    ELSE LET parts == split1(Head(flat), DOT)
         IN (IF Len(parts) = 2 /\ parts[1] = top THEN <<parts[2]>> ELSE <<>>)
            \o Subs(Tail(flat), top)

\* unflatten(loggers_flat): an ordered dict name -> nested dict, kept as a sequence of
\* entries [name, sub] in key order
RECURSIVE unflatten(_)
unflatten(loggers_flat) ==
    LET tops == Tops(loggers_flat, {})
    IN [i \in 1..Len(tops) |->
           [name |-> tops[i], sub |-> unflatten(Subs(loggers_flat, tops[i]))]]

\* LoggingCmd.get_loggers
get_loggers == unflatten(get_loggers_flat)

\* get_logger_children(logger): walk the nested dict by the dotted parts; a missing part is
\* a KeyError
RECURSIVE lookup_parts(_, _)
lookup_parts(tree, parts) ==
    IF parts = <<>> THEN [ok |-> TRUE, loggers |-> tree]
    ELSE IF \E i \in 1..Len(tree) : tree[i].name = Head(parts)
         THEN LET i == CHOOSE i \in 1..Len(tree) : tree[i].name = Head(parts)
              IN lookup_parts(tree[i].sub, Tail(parts))
         ELSE [ok |-> FALSE, loggers |-> <<>>]

get_logger_children(logger) == lookup_parts(get_loggers, split(logger, DOT))

----------------------------------------------------------------------------
(* LoggingCmd: the commands.  A command is given the console (self: its     *)
(* _handlers, an ordered dict kept as a sequence of [name, handler]), the   *)
(* registry's values L and its argument; it yields the console's _handlers  *)
(* and the registry's values afterwards, the strings it passed to           *)
(* self.stdout.write in order, and the exception it let escape ("" if none) *)
(***************************************************************************)

\* logging.DEBUG .. logging.CRITICAL, and the root logger's default level
DEBUG == 10
INFO == 20
WARNING == 30
ERROR == 40
CRITICAL == 50

\* the keys of LEVELS
LevelDebug == <<"d", "e", "b", "u", "g">>
LevelInfo == <<"i", "n", "f", "o">>
LevelWarning == <<"w", "a", "r", "n", "i", "n", "g">>
LevelError == <<"e", "r", "r", "o", "r">>
LevelCritical == <<"c", "r", "i", "t", "i", "c", "a", "l">>

\* LEVELS, in the order of the dict literal
LEVELS ==
    <<[name |-> LevelDebug, value |-> DEBUG],
      [name |-> LevelInfo, value |-> INFO],
      [name |-> LevelWarning, value |-> WARNING],
      [name |-> LevelError, value |-> ERROR],
      [name |-> LevelCritical, value |-> CRITICAL]>>

\* LoggingCmd.indent
indent == <<SP, SP, SP, SP>>

\* PROMPT
PROMPT == <<"$", SP>>

\* key in d, for an ordered dict d kept as a sequence of entries with a field name
HasName(d, key) == \E i \in 1..Len(d) : d[i].name = key

\* d[key]
AtName(d, key) == d[CHOOSE i \in 1..Len(d) : d[i].name = key]

\* d without key
WithoutName(d, key) == SelectSeq(d, LAMBDA e : e.name # key)

\* what a command yields
Outcome(handlers, L, out, exc) == [handlers |-> handlers, loggers |-> L, out |-> out, exc |-> exc]

\* Logger.addHandler(hdlr): appended unless already in the list
addHandler(hs, hdlr) ==
    IF \E i \in 1..Len(hs) : hs[i] = hdlr THEN hs ELSE Append(hs, hdlr)

\* Logger.removeHandler(hdlr)
removeHandler(hs, hdlr) == SelectSeq(hs, LAMBDA h : h # hdlr)

\* do_watch without the "already being watched" early return
do_watch_no_check(self, arg, L, handler) ==
    IF arg \notin DOMAIN L
    THEN Outcome(self.handlers, L,
                 writeline(<<"*** No logger found with name: ">> \o arg), "")
    ELSE IF L[arg].kind # "Logger"
    THEN Outcome(self.handlers, L, writeline(<<"*** Not a top level logger">>), "")
    ELSE Outcome(Append(WithoutName(self.handlers, arg), [name |-> arg, handler |-> handler]),
                 [L EXCEPT ![arg].handlers = addHandler(@, handler)], <<>>, "")

\* do_watch that records the handler in _handlers before it calls addHandler
do_watch_map_first(self, arg, L, handler) ==
    IF HasName(self.handlers, arg)
    THEN Outcome(self.handlers, L, writeline(<<"*** Logger already being watched">>), "")
    ELSE IF arg \notin DOMAIN L
    THEN Outcome(self.handlers, L,
                 writeline(<<"*** No logger found with name: ">> \o arg), "")
    ELSE IF L[arg].kind # "Logger"
    THEN Outcome(Append(self.handlers, [name |-> arg, handler |-> handler]), L,
                 writeline(<<"*** Not a top level logger">>), "")
    ELSE Outcome(Append(self.handlers, [name |-> arg, handler |-> handler]),
                 [L EXCEPT ![arg].handlers = addHandler(@, handler)], <<>>, "")

\* LoggingCmd.do_watch(arg); handler is the StreamHandler object it creates
do_watch(self, arg, L, handler) ==
    IF HasName(self.handlers, arg)
    THEN Outcome(self.handlers, L, writeline(<<"*** Logger already being watched">>), "")
    ELSE IF arg \notin DOMAIN L
    THEN Outcome(self.handlers, L,
                 writeline(<<"*** No logger found with name: ">> \o arg), "")
    ELSE IF L[arg].kind # "Logger"
         \* PlaceHolder has no addHandler: AttributeError, caught
    THEN Outcome(self.handlers, L, writeline(<<"*** Not a top level logger">>), "")
    ELSE Outcome(Append(self.handlers, [name |-> arg, handler |-> handler]),
                 [L EXCEPT ![arg].handlers = addHandler(@, handler)], <<>>, "")

\* LoggingCmd.do_unwatch(arg)
do_unwatch(self, arg, L) ==
    IF ~HasName(self.handlers, arg)
    THEN Outcome(self.handlers, L, writeline(<<"*** Logger not being watched">>), "")
    ELSE LET handler == AtName(self.handlers, arg).handler
             popped == WithoutName(self.handlers, arg)
         IN IF arg \notin DOMAIN L
            THEN Outcome(popped, L, writeline(<<"*** Logger not being watched">>), "")
            ELSE IF L[arg].kind # "Logger"
            THEN Outcome(popped, L, <<>>, "AttributeError")
            ELSE Outcome(popped, [L EXCEPT ![arg].handlers = removeHandler(@, handler)],
                         <<>>, "")

\* LoggingCmd.do_watching(arg)
do_watching(self, arg, L) ==
    IF Len(self.handlers) # 0
    THEN Outcome(self.handlers, L,
                 writeline(indent \o join([i \in 1..Len(self.handlers) |->
                                              self.handlers[i].name], <<NL>> \o indent)), "")
    ELSE Outcome(self.handlers, L, writeline(<<"*** No loggers being watched">>), "")

\* do_set_level without the check that the logger is watched
do_set_level_unwatched(self, arg, L) ==
    LET words == split(arg, SP)
    IN IF Len(words) # 2
       THEN Outcome(self.handlers, L,
                    writeline(<<"*** Must be in the format: set_level <logger> <level>">>), "")
       ELSE IF ~HasName(LEVELS, words[2])
       THEN Outcome(self.handlers, L, writeline(<<"*** Unknown level: ">> \o words[2]), "")
       ELSE IF words[1] \in DOMAIN L
       THEN Outcome(self.handlers,
                    [L EXCEPT ![words[1]].level = AtName(LEVELS, words[2]).value], <<>>, "")
       ELSE Outcome(self.handlers, L, <<>>, "")

\* LoggingCmd.do_set_level(arg)
do_set_level(self, arg, L) ==
    LET words == split(arg, SP)
    IN IF Len(words) # 2
       THEN Outcome(self.handlers, L,
                    writeline(<<"*** Must be in the format: set_level <logger> <level>">>), "")
       ELSE LET logger == words[1]
                level == words[2]
            IN IF ~HasName(self.handlers, logger)
               THEN Outcome(self.handlers, L,
                            writeline(<<"*** Can only change the level on watched loggers">>), "")
               ELSE IF ~HasName(LEVELS, level)
               THEN Outcome(self.handlers, L, writeline(<<"*** Unknown level: ">> \o level), "")
               ELSE IF logger \in DOMAIN L
               THEN Outcome(self.handlers,
                            [L EXCEPT ![logger].level = AtName(LEVELS, level).value], <<>>, "")
               ELSE Outcome(self.handlers, L, <<>>, "")

\* the box-drawing characters of do_tree: chr(9492), chr(9500), chr(9472), chr(9474)
CORNER == "L"
TEE == "+"
DASH == "-"
BAR == "|"

\* inner_indent of do_tree
inner_indent == <<BAR, SP, SP, SP>>

\* tree_level(loggers, prefix) of do_tree: the writes for one level of the nested dict and
\* everything below it; tree_rows is its loop from the i-th entry on
RECURSIVE tree_level(_, _)
RECURSIVE tree_rows(_, _, _)
\* tree_rows drawing blank indent below every child, last or not
tree_rows_blank_columns(tree, prefix, i) ==
    IF i > Len(tree) THEN <<>>
    ELSE LET is_last == (Len(tree) - (i - 1) = 1)
             row_prefix == prefix \o <<(IF is_last THEN CORNER ELSE TEE), DASH, DASH, SP>>
         IN writeline(row_prefix \o tree[i].name)
            \o tree_level(tree[i].sub, prefix \o indent)
            \o tree_rows(tree, prefix, i + 1)

tree_rows(tree, prefix, i) ==
    IF i > Len(tree) THEN <<>>
    ELSE LET is_last == (Len(tree) - (i - 1) = 1)
             row_prefix == prefix \o <<(IF is_last THEN CORNER ELSE TEE), DASH, DASH, SP>>
         IN writeline(row_prefix \o tree[i].name)
            \o tree_level(tree[i].sub, prefix \o (IF is_last THEN indent ELSE inner_indent))
            \o tree_rows(tree, prefix, i + 1)

tree_level(tree, prefix) == tree_rows(tree, prefix, 1)

\* LoggingCmd.do_tree(arg)
do_tree(self, arg, L) ==
    IF arg # <<>> /\ ~get_logger_children(arg).ok
         \* the KeyError handler evaluates prefix.join('.'): prefix is no name of do_tree's
         \* scope nor a global, so a NameError escapes before anything is written
    THEN Outcome(self.handlers, L, <<>>, "NameError")
    ELSE LET logger == IF arg # <<>> THEN arg ELSE <<"root">>
             tree == IF arg # <<>> THEN get_logger_children(arg).loggers ELSE get_loggers
         IN Outcome(self.handlers, L,
                    writeline(indent \o logger) \o tree_level(tree, indent), "")

\* the loop of do_list_loggers over the children, from the i-th on
RECURSIVE list_rows(_, _, _)
list_rows(tree, prefix, i) ==
    IF i > Len(tree) THEN <<>>
    ELSE writeline(indent \o prefix \o tree[i].name) \o list_rows(tree, prefix, i + 1)

\* LoggingCmd.do_list_loggers(arg), also do_ll
do_list_loggers(self, arg, L) ==
    IF arg # <<>> /\ ~get_logger_children(arg).ok
    THEN Outcome(self.handlers, L, writeline(<<"No such logger: ">> \o arg), "")
    ELSE LET tree == IF arg # <<>> THEN get_logger_children(arg).loggers ELSE get_loggers
             prefix == IF arg # <<>> THEN arg \o <<DOT>> ELSE <<>>
         IN IF Len(tree) = 0
            THEN Outcome(self.handlers, L, writeline(<<"*** No child loggers found">>), "")
            ELSE Outcome(self.handlers, L, list_rows(tree, prefix, 1), "")

----------------------------------------------------------------------------
(* Cmd.onecmd: parse the line and dispatch *)

\* the do_ methods of LoggingCmd, as get_names() lists them (dir() is sorted)
CmdClear == <<"c", "l", "e", "a", "r">>
CmdHelp == <<"h", "e", "l", "p">>
CmdLa == <<"l", "a">>
CmdListAll == <<"l", "i", "s", "t", "_", "a", "l", "l">>
CmdListLoggers == <<"l", "i", "s", "t", "_", "l", "o", "g", "g", "e", "r", "s">>
CmdLl == <<"l", "l">>
CmdSetLevel == <<"s", "e", "t", "_", "l", "e", "v", "e", "l">>
CmdTree == <<"t", "r", "e", "e">>
CmdUnwatch == <<"u", "n", "w", "a", "t", "c", "h">>
CmdWatch == <<"w", "a", "t", "c", "h">>
CmdWatching == <<"w", "a", "t", "c", "h", "i", "n", "g">>

get_names ==
    <<CmdClear, CmdHelp, CmdLa, CmdListAll, CmdListLoggers, CmdLl, CmdSetLevel, CmdTree,
      CmdUnwatch, CmdWatch, CmdWatching>>

\* the commands whose do_ method the model carries
ModelledCmds ==
    {CmdLl, CmdListLoggers, CmdSetLevel, CmdTree, CmdUnwatch, CmdWatch, CmdWatching}

\* str.strip(): whitespace off both ends
IsSpace(c) == c \in {SP, TAB, NL}

RECURSIVE lstrip(_)
lstrip(s) == IF s # <<>> /\ IsSpace(Head(s)) THEN lstrip(Tail(s)) ELSE s

RECURSIVE rstrip(_)
rstrip(s) ==
    IF s # <<>> /\ IsSpace(s[Len(s)]) THEN rstrip(SubSeq(s, 1, Len(s) - 1)) ELSE s

strip(s) == rstrip(lstrip(s))

\* Cmd.identchars, among the characters of the model: letters and the underscore
IsIdentChar(c) == c \notin {SP, TAB, NL, DOT, "!", "?", "$", ":"}

\* the length of the leading run of identchars
RECURSIVE IdentLen(_)
IdentLen(s) == IF s # <<>> /\ IsIdentChar(Head(s)) THEN 1 + IdentLen(Tail(s)) ELSE 0

\* Cmd.parseline(line): (cmd, arg, line); none stands for cmd and arg being None
parseline(line) ==
    LET stripped == strip(line)
    IN IF stripped = <<>> THEN [none |-> TRUE, cmd |-> <<>>, arg |-> <<>>, line |-> stripped]
       ELSE IF stripped[1] = "!"
       THEN [none |-> TRUE, cmd |-> <<>>, arg |-> <<>>, line |-> stripped]
       ELSE LET l == IF stripped[1] = "?" THEN CmdHelp \o <<SP>> \o Tail(stripped)
                     ELSE stripped
                i == IdentLen(l)
            IN [none |-> FALSE, cmd |-> UpTo(l, i), arg |-> strip(From(l, i)), line |-> l]

\* Cmd.default(line)
default(self, line, L) ==
    Outcome(self.handlers, L, <<(<<"*** Unknown syntax: ">> \o line \o <<NL>>)>>, "")

\* the lines execute is given in the model: not blank (Cmd.emptyline would repeat
\* lastcmd), and not one of clear, help, list_all, la
Modelled(line) ==
    LET p == parseline(line)
    IN /\ p.line # <<>>
       /\ (p.none \/ p.cmd \notin (Keys(get_names) \ ModelledCmds))

\* Cmd.onecmd(line); handler is the StreamHandler a watch would create
onecmd(self, line, L, handler) ==
    LET p == parseline(line)
    IN IF p.none \/ p.cmd = <<>> THEN default(self, p.line, L)
       ELSE IF p.cmd = CmdWatch THEN do_watch(self, p.arg, L, handler)
       ELSE IF p.cmd = CmdUnwatch THEN do_unwatch(self, p.arg, L)
       ELSE IF p.cmd = CmdWatching THEN do_watching(self, p.arg, L)
       ELSE IF p.cmd = CmdSetLevel THEN do_set_level(self, p.arg, L)
       ELSE IF p.cmd = CmdTree THEN do_tree(self, p.arg, L)
       ELSE IF p.cmd \in {CmdListLoggers, CmdLl} THEN do_list_loggers(self, p.arg, L)
       ELSE default(self, p.line, L)

----------------------------------------------------------------------------
(* get_console, execute, and the host's side: log records and file loads *)

\* the console regions of the host's window: hash(context.region)
Regions == {1, 2}

\* the window manager is replaced at most this often
MaxWm == 1
\* execute is called while the scrollbacks hold fewer lines than this, and records are
\* logged while they hold no more
MaxScroll == 3

\* the lines in the scrollbacks of all regions
RECURSIVE ScrollLen(_, _)
ScrollLen(sb, rs) ==
    IF rs = {} THEN 0
    ELSE LET r == CHOOSE r \in rs : TRUE IN Len(sb[r]) + ScrollLen(sb, rs \ {r})

\* LoggingCmd.__init__ with stdout=ScrollBackIO(bpy.context), called in region context
LoggingCmd(context) == [handlers |-> <<>>, stdout |-> ScrollBackIO(context)]

\* get_console(console_id): the function's attributes and the LoggingCmd instances after
\* the call, and the instance it returns (its index in cmds)
get_console(console_id) ==
    LET hash_next == window_manager
        attrs == IF ~get_console_attrs.has
                 THEN [has |-> TRUE, consoles |-> <<>>, consoles_namespace_hash |-> hash_next]
                 ELSE IF get_console_attrs.consoles_namespace_hash # hash_next
                 THEN [get_console_attrs EXCEPT !.consoles_namespace_hash = hash_next,
                                                !.consoles = <<>>]
                 ELSE get_console_attrs
    IN IF console_id \in DOMAIN attrs.consoles
       THEN [attrs |-> attrs, cmds |-> cmds, console |-> attrs.consoles[console_id]]
       ELSE [attrs |-> [attrs EXCEPT !.consoles = @ @@ (console_id :> (Len(cmds) + 1))],
             cmds |-> Append(cmds, LoggingCmd(console_id)),
             console |-> Len(cmds) + 1]

\* every handler attached to a logger of L
AttachedHandlers(L) == UNION {Keys(L[n].handlers) : n \in DOMAIN L}

\* every handler a LoggingCmd of cs holds in its _handlers
HeldHandlers(cs) == UNION {{e.handler : e \in Keys(cs[c].handlers)} : c \in 1..Len(cs)}

\* logging.StreamHandler(self.stdout): a new object, told from every handler still
\* referenced; stream is the LoggingCmd whose stdout it writes to
StreamHandler(stream, L, cs) ==
    LET used == {h.id : h \in {x \in AttachedHandlers(L) \cup HeldHandlers(cs) : x.stream = stream}}
    IN [id |-> CHOOSE k \in 1..(Cardinality(used) + 1) :
                   k \notin used /\ \A j \in 1..(k - 1) : j \in used,
        stream |-> stream]

\* the input line of a region after history_append(text="", current_character=0)
BlankLine == [body |-> <<>>, current_character |-> 0]

\* the lines the commands are given
Line(cmd, arg) == cmd \o <<SP>> \o arg

\* execute(context, is_interactive) in region, with line the body of sc.history[-1]
Execute(region, line) ==
    /\ ScrollLen(scrollback, Regions) < MaxScroll
    /\ Modelled(line)
    /\ LET gc == get_console(region)
           self == gc.cmds[gc.console]
           res == onecmd(self, line, loggers, StreamHandler(gc.console, loggers, gc.cmds))
           w == writes(self.stdout, res.out)
           echoed == [scrollback EXCEPT
                         ![region] = Append(@, [text |-> PROMPT \o line, type |-> "INPUT"])]
       IN /\ get_console_attrs' = gc.attrs
          /\ cmds' = [gc.cmds EXCEPT ![gc.console] = [handlers |-> res.handlers, stdout |-> w.io]]
          /\ loggers' = res.loggers
          /\ scrollback' = [echoed EXCEPT ![self.stdout.context] = @ \o w.lines]
          /\ ret' = IF res.exc = "" THEN "FINISHED" ELSE res.exc
          /\ history' = IF res.exc = "" THEN [history EXCEPT ![region] = BlankLine]
                        ELSE IF history[region].body = line THEN history
                        ELSE [history EXCEPT ![region] =
                                 [body |-> line, current_character |-> Len(line)]]
    /\ UNCHANGED <<loggerDict, window_manager, written>>

\* logging.getLevelName(levelno)
getLevelName(levelno) ==
    IF levelno = DEBUG THEN "DEBUG"
    ELSE IF levelno = INFO THEN "INFO"
    ELSE IF levelno = WARNING THEN "WARNING"
    ELSE IF levelno = ERROR THEN "ERROR"
    ELSE "CRITICAL"

\* logging.BASIC_FORMAT applied to a record: levelname:name:message
format(levelno, name, msg) == <<getLevelName(levelno), ":">> \o name \o <<":">> \o msg

\* Logger.getEffectiveLevel: the first level set along the parent chain, the root's
\* (WARNING) if none is
getEffectiveLevel(L, name) ==
    LET chain == SelectSeq(<<name>> \o LoggerAncestors(L, name), LAMBDA n : L[n].level # 0)
    IN IF chain = <<>> THEN WARNING ELSE L[chain[1]].level

\* Logger.callHandlers: the handlers of the logger, then of each ancestor up the chain
RECURSIVE HandlersAlong(_, _)
HandlersAlong(L, chain) ==
    IF chain = <<>> THEN <<>> ELSE L[Head(chain)].handlers \o HandlersAlong(L, Tail(chain))

callHandlers(L, name) == HandlersAlong(L, <<name>> \o LoggerAncestors(L, name))

\* StreamHandler.emit on each handler of hs in turn: stream.write(msg + terminator)
RECURSIVE emit(_, _, _, _)
emit(hs, cs, sb, text) ==
    IF hs = <<>> THEN [cmds |-> cs, scrollback |-> sb]
    ELSE LET stream == Head(hs).stream
             w == write(cs[stream].stdout, text)
         IN emit(Tail(hs), [cs EXCEPT ![stream].stdout = w.io],
                 [sb EXCEPT ![cs[stream].stdout.context] = @ \o w.lines], text)

\* the messages and levels of the records the host's code logs
Msgs == {<<"m">>}
Levelnos == {DEBUG, ERROR}

\* the host logs a record: logging.getLogger(name).log(levelno, msg)
Log(name, levelno, msg) ==
    /\ name \in DOMAIN loggers /\ loggers[name].kind = "Logger"
    /\ ScrollLen(scrollback, Regions) <= MaxScroll
    /\ LET hs == IF levelno >= getEffectiveLevel(loggers, name)
                 THEN callHandlers(loggers, name) ELSE <<>>
           res == emit(hs, cmds, scrollback, format(levelno, name, msg) \o <<NL>>)
       IN /\ cmds' = res.cmds
          /\ scrollback' = res.scrollback
    /\ UNCHANGED <<loggerDict, loggers, window_manager, get_console_attrs, history, ret,
                   written>>

\* the host loads a file: bpy.context.window_manager is a new object
LoadFile ==
    /\ window_manager < MaxWm
    /\ window_manager' = window_manager + 1
    /\ UNCHANGED <<loggerDict, loggers, get_console_attrs, cmds, scrollback, history, ret,
                   written>>

\* the registry of the host: getLogger('a.b'), getLogger('a'), getLogger('b.a') leave
\* a.b and a real loggers (a the parent of a.b), b.a a real logger and b a PlaceHolder
HostRegistry == RegistryOf(<<NameAB, NameA, NameBA>>)

\* the lines typed in the console
CmdLines ==
    {Line(CmdWatch, n) : n \in {NameA, NameAB, NameB, NameC}}
    \cup {Line(CmdUnwatch, n) : n \in {NameA, NameAB}}
    \cup {Line(CmdSetLevel, NameA \o <<SP>> \o LevelDebug),
          Line(CmdSetLevel, NameAB \o <<SP>> \o LevelCritical),
          Line(CmdSetLevel, NameA \o <<SP>> \o <<"l", "o", "u", "d">>),
          Line(CmdSetLevel, NameA \o <<SP, SP>> \o LevelDebug),
          Line(CmdSetLevel, NameA),
          CmdWatching,
          CmdTree,
          Line(CmdTree, NameC),
          Line(CmdLl, NameA)}

\* the state when the add-on is loaded: no console yet, nothing watched
Init ==
    /\ loggerDict = HostRegistry.dict
    /\ loggers = HostRegistry.objs
    /\ window_manager = 0
    /\ get_console_attrs = [has |-> FALSE, consoles |-> <<>>, consoles_namespace_hash |-> 0]
    /\ cmds = <<>>
    /\ scrollback = [r \in Regions |-> <<>>]
    /\ history = [r \in Regions |-> BlankLine]
    /\ ret = "none"
    /\ written = <<>>

Next ==
    \/ \E region \in Regions, line \in CmdLines : Execute(region, line)
    \/ \E name \in {NameA, NameAB}, levelno \in Levelnos, msg \in Msgs : Log(name, levelno, msg)
    \/ LoadFile

Spec == Init /\ [][Next]_vars

----------------------------------------------------------------------------
(* What a step of Spec shows of the call that made it.  execute appends the *)
(* prompt and the line to its region's scrollback before anything else, so  *)
(* the step of execute(region, line) is the one whose first new line in the *)
(* region is that echo.                                                     *)

\* the echo of a line
Echo(line) == [text |-> PROMPT \o line, type |-> "INPUT"]

\* the region's scrollback holds the echo of line
Echoed(r, line) == \E i \in 1..Len(scrollback[r]) : scrollback[r][i] = Echo(line)

\* this step is execute in region r of line
Executed(r, line) ==
    /\ Len(scrollback'[r]) > Len(scrollback[r])
    /\ SubSeq(scrollback'[r], 1, Len(scrollback[r]) + 1) = Append(scrollback[r], Echo(line))

\* the lines this step appended to region r after the echo
Output(r) == SubSeq(scrollback'[r], Len(scrollback[r]) + 2, Len(scrollback'[r]))

\* the _handlers, before this step, of the LoggingCmd that ran the command in region r
\* (empty when get_console created the instance in this step)
Before(r) ==
    LET self == get_console_attrs'.consoles[r]
    IN IF self <= Len(cmds) THEN cmds[self].handlers ELSE <<>>

\* no LoggingCmd's _handlers changes in this step
HandlersUnchanged ==
    \A c \in 1..Len(cmds') :
        cmds'[c].handlers = (IF c <= Len(cmds) THEN cmds[c].handlers ELSE <<>>)

\* the messages of the commands that start with '***'
StarMessages ==
    {"*** Logger already being watched", "*** No logger found with name: ",
     "*** Not a top level logger", "*** Logger not being watched",
     "*** No loggers being watched", "*** No child loggers found",
     "*** Must be in the format: set_level <logger> <level>",
     "*** Can only change the level on watched loggers", "*** Unknown level: ",
     "*** Unknown syntax: "}

\* a line of output that is a '***' message
IsStarLine(l) == l.type = "OUTPUT" /\ l.text # <<>> /\ l.text[1] \in StarMessages

\* every logger name a command or a record of the model names
AllNames == {NameA, NameAB, NameB, NameBA, NameC}

\* the handlers attached to registered logger n that LoggingCmd c created
AttachedBy(c, n) ==
    IF n \in DOMAIN loggers
    THEN {i \in 1..Len(loggers[n].handlers) : loggers[n].handlers[i].stream = c}
    ELSE {}

\* the LoggingCmd instances get_console still returns: those in its table
Returned ==
    IF get_console_attrs.has
    THEN {get_console_attrs.consoles[r] : r \in DOMAIN get_console_attrs.consoles}
    ELSE {}

----------------------------------------------------------------------------
(* The claims about watching *)

\* C1: for every LoggingCmd instance, a logger name is a key of its _handlers if and only
\* if exactly one handler the instance created is attached to the registered logger of
\* that name, and that handler is the one the map holds; no name is a key twice.
C1_WatchedIffOneHandler ==
    \A c \in 1..Len(cmds) : \A n \in AllNames :
        /\ HasName(cmds[c].handlers, n) <=> Cardinality(AttachedBy(c, n)) = 1
        /\ Cardinality(AttachedBy(c, n)) <= 1
        /\ Cardinality({i \in 1..Len(cmds[c].handlers) : cmds[c].handlers[i].name = n}) <= 1
        /\ HasName(cmds[c].handlers, n) =>
               \E i \in AttachedBy(c, n) :
                   loggers[n].handlers[i] = AtName(cmds[c].handlers, n).handler

\* C1's case: region 1 watched a and unwatched it again, region 2 watches a: the logger
\* carries the one handler of region 2's console
C1_Witness ==
    /\ Echoed(1, Line(CmdWatch, NameA)) /\ Echoed(1, Line(CmdUnwatch, NameA))
    /\ Echoed(2, Line(CmdWatch, NameA))
    /\ Returned # {} /\ DOMAIN get_console_attrs.consoles = {1, 2}
    /\ ~HasName(cmds[get_console_attrs.consoles[1]].handlers, NameA)
    /\ HasName(cmds[get_console_attrs.consoles[2]].handlers, NameA)
    /\ Len(loggers[NameA].handlers) = 1

\* C3: a step changes a logger's level only as execute of 'set_level <logger> <level>'
\* with the logger watched by the console and the level a key of LEVELS, and the level
\* is then the mapped value; every other set_level (wrong word count, logger not watched,
\* unknown level) writes one '***' line and changes no level, no attached handler and no
\* watched map.
C3_Step ==
    /\ \A n \in DOMAIN loggers :
           loggers'[n].level # loggers[n].level =>
               \E r \in Regions, l \in 1..Len(LEVELS) :
                   /\ Executed(r, Line(CmdSetLevel, n \o <<SP>> \o LEVELS[l].name))
                   /\ HasName(Before(r), n)
                   /\ loggers'[n].level = LEVELS[l].value
    /\ \A r \in Regions, line \in CmdLines :
           (Executed(r, line) /\ parseline(line).cmd = CmdSetLevel) =>
               LET words == split(parseline(line).arg, SP)
                   good == /\ Len(words) = 2
                           /\ HasName(Before(r), words[1])
                           /\ HasName(LEVELS, words[2])
               IN IF good
                  THEN /\ loggers'[words[1]].level = AtName(LEVELS, words[2]).value
                       /\ Output(r) = <<>>
                  ELSE /\ Len(Output(r)) = 1 /\ IsStarLine(Output(r)[1])
                       /\ loggers' = loggers
                       /\ HandlersUnchanged

\* C3: every step changes levels only through a well-formed set_level on a watched logger
C3_SetLevelOnlyOnWatched == [][C3_Step]_vars

\* C3's case: a is watched in region 1 and set_level has set its level to DEBUG
C3_Witness ==
    /\ Echoed(1, Line(CmdSetLevel, NameA \o <<SP>> \o LevelDebug))
    /\ loggers[NameA].level = DEBUG
    /\ Returned # {} /\ 1 \in DOMAIN get_console_attrs.consoles
    /\ HasName(cmds[get_console_attrs.consoles[1]].handlers, NameA)

\* C4: 'watch n' with n not in the registry, n a PlaceHolder or n already watched, and
\* 'unwatch n' with n not watched, each write exactly one '***' line and leave the
\* watched maps, the handlers of every logger and every level unchanged.
C4_Step ==
    \A r \in Regions, line \in CmdLines :
        Executed(r, line) =>
            LET p == parseline(line)
                failing ==
                    \/ /\ p.cmd = CmdWatch
                       /\ \/ p.arg \notin Keys(loggerDict)
                          \/ loggers[p.arg].kind = "PlaceHolder"
                          \/ HasName(Before(r), p.arg)
                    \/ /\ p.cmd = CmdUnwatch
                       /\ ~HasName(Before(r), p.arg)
            IN failing =>
                   /\ Len(Output(r)) = 1 /\ IsStarLine(Output(r)[1])
                   /\ loggers' = loggers
                   /\ HandlersUnchanged

\* C4: every failed watch or unwatch writes one '***' line and changes nothing else
C4_FailedWatchChangesNothing == [][C4_Step]_vars

\* C4's case: a second 'watch a' in region 1 was answered with the one '***' line, and a
\* still carries the one handler of the first
C4_Witness ==
    /\ scrollback[1] = <<Echo(Line(CmdWatch, NameA)), Echo(Line(CmdWatch, NameA)),
                         [text |-> <<"*** Logger already being watched">>, type |-> "OUTPUT"]>>
    /\ Len(loggers[NameA].handlers) = 1
    /\ ret = "FINISHED"

\* the console in region r's entry of get_console's table watches n
Watching(r, n) ==
    /\ get_console_attrs.has
    /\ r \in DOMAIN get_console_attrs.consoles
    /\ HasName(cmds[get_console_attrs.consoles[r]].handlers, n)

\* region r's scrollback shows an 'unwatch n' that was not answered with a '***' line,
\* and no 'watch n' after it
UnwatchedSince(r, n) ==
    \E i \in 1..Len(scrollback[r]) :
        /\ scrollback[r][i] = Echo(Line(CmdUnwatch, n))
        /\ (i = Len(scrollback[r]) \/ ~IsStarLine(scrollback[r][i + 1]))
        /\ \A j \in (i + 1)..Len(scrollback[r]) : scrollback[r][j] # Echo(Line(CmdWatch, n))

\* C2: a record logged on a logger the region's console watches, at a level enabled for
\* the logger, is appended to the region's scrollback as its formatted line, after the
\* lines already there; a record logged on a logger after the region's unwatch of it,
\* with no new watch of it and no watched ancestor, appends no line to the region's
\* scrollback.
C2_Step ==
    \A n \in {NameA, NameAB}, levelno \in Levelnos, msg \in Msgs :
        Log(n, levelno, msg) =>
            \A r \in Regions :
                LET new == SubSeq(scrollback'[r], Len(scrollback[r]) + 1, Len(scrollback'[r]))
                IN /\ SubSeq(scrollback'[r], 1, Len(scrollback[r])) = scrollback[r]
                   /\ (Watching(r, n) /\ levelno >= getEffectiveLevel(loggers, n)) =>
                          [text |-> format(levelno, n, msg), type |-> "OUTPUT"] \in Keys(new)
                   /\ (/\ UnwatchedSince(r, n)
                       /\ ~Watching(r, n)
                       /\ \A a \in Keys(ProperPrefixes(n)) : ~Watching(r, a)) =>
                          new = <<>>

\* C2: every logged record is streamed to the consoles that watch its logger, and to none
\* that has unwatched it
C2_WatchedRecordsStream == [][C2_Step]_vars

\* C9: every handler attached to a logger is held in the _handlers of a LoggingCmd that
\* get_console still returns.
C9_HandlersStayReachable ==
    \A h \in AttachedHandlers(loggers) :
        \E c \in Returned : \E i \in 1..Len(cmds[c].handlers) : cmds[c].handlers[i].handler = h

----------------------------------------------------------------------------
(* ScrollBackIO on its own: the stdout of the console of region 1 is given   *)
(* arbitrary strings                                                         *)

\* the state once get_console has created the console of region 1
InitIO ==
    /\ loggerDict = HostRegistry.dict
    /\ loggers = HostRegistry.objs
    /\ window_manager = 0
    /\ get_console_attrs = [has |-> TRUE, consoles |-> <<1>>, consoles_namespace_hash |-> 0]
    /\ cmds = <<LoggingCmd(1)>>
    /\ scrollback = [r \in Regions |-> <<>>]
    /\ history = [r \in Regions |-> BlankLine]
    /\ ret = "none"
    /\ written = <<>>

\* self.stdout.write(s)
IOWrite(s) ==
    /\ Len(written) + Len(s) <= MaxWritten
    /\ LET w == write(cmds[1].stdout, s)
       IN /\ cmds' = [cmds EXCEPT ![1].stdout = w.io]
          /\ scrollback' = [scrollback EXCEPT ![w.io.context] = @ \o w.lines]
    /\ written' = written \o s
    /\ UNCHANGED <<loggerDict, loggers, window_manager, get_console_attrs, history, ret>>

\* self.stdout.writeline(s)
IOWriteline(s) ==
    /\ Len(written) + Len(s) + 1 <= MaxWritten
    /\ LET w == writes(cmds[1].stdout, writeline(s))
       IN /\ cmds' = [cmds EXCEPT ![1].stdout = w.io]
          /\ scrollback' = [scrollback EXCEPT ![w.io.context] = @ \o w.lines]
    /\ written' = written \o s \o <<NL>>
    /\ UNCHANGED <<loggerDict, loggers, window_manager, get_console_attrs, history, ret>>

NextIO ==
    \/ \E s \in StrUpTo(IOAlphabet, MaxStr) : IOWrite(s)
    \/ \E s \in StrUpTo(IOAlphabet, MaxStr) : IOWriteline(s)

SpecIO == InitIO /\ [][NextIO]_vars

\* the texts of the lines in region 1's scrollback
IOLines == [i \in 1..Len(scrollback[1]) |-> scrollback[1][i].text]

\* C7 as stated: the buffer holds no newline, and the lines appended so far, joined by
\* newlines and followed by a newline and the buffer (the buffer alone when no line was
\* appended), are everything written with every tab replaced by four spaces.
C7_AsClaimed ==
    /\ ~Contains(cmds[1].stdout.buffer, NL)
    /\ IF IOLines = <<>>
       THEN cmds[1].stdout.buffer = replace_tab(written)
       ELSE join(IOLines, <<NL>>) \o <<NL>> \o cmds[1].stdout.buffer = replace_tab(written)

\* C7, amended: the buffer holds no newline and is the text written since the last
\* newline as it was written, tabs included; the lines appended so far, joined by newlines
\* and followed by a newline and the buffer with its tabs replaced by four spaces (the
\* buffer alone when no line was appended), are everything written with every tab replaced
\* by four spaces.  So a line is appended exactly when the newline that ends it is written.
C7_LosslessLineBuffer ==
    /\ ~Contains(cmds[1].stdout.buffer, NL)
    /\ Len(cmds[1].stdout.buffer) <= Len(written)
    /\ From(written, Len(written) - Len(cmds[1].stdout.buffer)) = cmds[1].stdout.buffer
    /\ Len(IOLines) = Cardinality({i \in 1..Len(written) : written[i] = NL})
    /\ \A i \in 1..Len(IOLines) : ~Contains(IOLines[i], NL) /\ ~Contains(IOLines[i], TAB)
    /\ IF IOLines = <<>>
       THEN cmds[1].stdout.buffer = written
       ELSE join(IOLines, <<NL>>) \o <<NL>> \o replace_tab(cmds[1].stdout.buffer)
            = replace_tab(written)

\* C7's case: two lines were appended, one of them with a tab, and the buffer holds an
\* unfinished line with a tab
C7_Witness ==
    /\ Len(IOLines) = 2
    /\ \E i \in 1..2 : IOLines[i] = <<SP, SP, SP, SP>>
    /\ cmds[1].stdout.buffer = <<TAB>>

----------------------------------------------------------------------------
(* Browsing: the host's modules create loggers, the console lists them *)

\* the registry holds at most this many names
MaxLoggers == 4

\* the names the host's modules ask loggers for
NamePool == {NameA, NameAB, NameB, NameBA, NameABA}

\* the browsing lines typed in the console
BrowseLines ==
    {CmdTree, CmdLl}
    \cup {Line(c, n) : c \in {CmdTree, CmdLl, CmdListLoggers}, n \in {NameA, NameAB, NameC}}

\* the state when the add-on is loaded into a host that has created no logger yet
InitBrowse ==
    /\ loggerDict = <<>>
    /\ loggers = <<>>
    /\ window_manager = 0
    /\ get_console_attrs = [has |-> FALSE, consoles |-> <<>>, consoles_namespace_hash |-> 0]
    /\ cmds = <<>>
    /\ scrollback = [r \in Regions |-> <<>>]
    /\ history = [r \in Regions |-> BlankLine]
    /\ ret = "none"
    /\ written = <<>>

\* a module of the host calls logging.getLogger(name); the modules create their loggers
\* while the host starts, before a line is typed in a console
GetLogger(name) ==
    LET reg == getLogger([dict |-> loggerDict, objs |-> loggers], name)
    IN /\ ~get_console_attrs.has
       /\ Len(reg.dict) <= MaxLoggers
       /\ loggerDict' = reg.dict
       /\ loggers' = reg.objs
       /\ UNCHANGED <<window_manager, get_console_attrs, cmds, scrollback, history, ret,
                      written>>

NextBrowse ==
    \/ \E name \in NamePool : GetLogger(name)
    \/ \E line \in BrowseLines : Execute(1, line)

SpecBrowse == InitBrowse /\ [][NextBrowse]_vars

\* the non-empty dotted prefixes of a name, the name included
Prefixes(name) ==
    {UpTo(name, i) : i \in {j \in 1..Len(name) : j = Len(name) \/ name[j + 1] = DOT}}

\* the nodes of the logger name hierarchy
Nodes == UNION {Prefixes(loggerDict[i]) : i \in 1..Len(loggerDict)}

\* the names the browsing lines are about
BrowseNames == {NameA, NameAB, NameC}

\* a step of C5 for the commands cs: a command of cs given a name that is no node writes
\* the single line 'No such logger: <name>', returns normally, leaving a blank input line
\* for the next command, and changes neither the registry nor any _handlers
NotFoundStep(cs) ==
    \A r \in Regions, c \in cs, n \in BrowseNames :
        Executed(r, Line(c, n)) /\ n \notin Nodes =>
            /\ Output(r) = <<[text |-> <<"No such logger: ">> \o n, type |-> "OUTPUT"]>>
            /\ ret' = "FINISHED"
            /\ history'[r] = BlankLine
            /\ loggers' = loggers
            /\ loggerDict' = loggerDict
            /\ HandlersUnchanged

\* C5: 'tree <name>', 'list_loggers <name>' and 'll <name>' with a name that is no node of
\* the hierarchy each write a single 'No such logger' line and no listing, return normally
\* so that the console accepts the next command, and change no state.
C5_NotFoundReported == [][NotFoundStep({CmdTree, CmdListLoggers, CmdLl})]_vars

\* the part of C5 about 'list_loggers <name>' and 'll <name>'
C5_ListLoggersNotFoundReported == [][NotFoundStep({CmdListLoggers, CmdLl})]_vars

\* C5's case: 'tree c' was executed with no logger c, and execute did not return
C5_Witness ==
    /\ NameC \notin Nodes
    /\ Echoed(1, Line(CmdTree, NameC))
    /\ ret = "NameError"

----------------------------------------------------------------------------
(* The tree view, read back from the scrollback *)

\* a row of the tree has exactly one connector
HasConnector(t) == Cardinality({p \in 1..Len(t) : t[p] \in {CORNER, TEE}}) = 1

\* where the connector of a row is
ConnAt(t) == CHOOSE p \in 1..Len(t) : t[p] \in {CORNER, TEE}

\* a row: the indent, one four-character column for each ancestor, the connector, two
\* dashes, a space and the label, which is one segment of a name
WellFormedRow(t) ==
    /\ HasConnector(t)
    /\ ConnAt(t) >= 5 /\ ConnAt(t) % 4 = 1
    /\ UpTo(t, 4) = indent
    /\ Len(t) > ConnAt(t) + 3
    /\ SubSeq(t, ConnAt(t) + 1, ConnAt(t) + 3) = <<DASH, DASH, SP>>
    /\ ~Contains(From(t, ConnAt(t) + 3), DOT)
    /\ ~Contains(From(t, ConnAt(t) + 3), SP)

\* the depth of a row's node (1 for a child of root), its label, and its i-th column
DepthOf(t) == (ConnAt(t) - 1) \div 4
LabelOf(t) == From(t, ConnAt(t) + 3)
ColumnOf(t, i) == SubSeq(t, 4 * i + 1, 4 * i + 4)

\* the row of the parent of row k: the last row above it that is one level up (0 for root)
ParentRow(rows, k) ==
    IF DepthOf(rows[k]) = 1 THEN 0
    ELSE CHOOSE j \in 1..(k - 1) :
             /\ DepthOf(rows[j]) = DepthOf(rows[k]) - 1
             /\ \A m \in (j + 1)..(k - 1) : DepthOf(rows[m]) # DepthOf(rows[k]) - 1

\* the dotted name of the node of row k
RECURSIVE RowPath(_, _)
RowPath(rows, k) ==
    IF DepthOf(rows[k]) = 1 THEN LabelOf(rows[k])
    ELSE RowPath(rows, ParentRow(rows, k)) \o <<DOT>> \o LabelOf(rows[k])

\* the row of the ancestor at depth i of row k
RECURSIVE AncestorRow(_, _, _)
AncestorRow(rows, k, i) ==
    IF DepthOf(rows[k]) = i THEN k ELSE AncestorRow(rows, ParentRow(rows, k), i)

\* row k is the last child of its parent
IsLastChild(rows, k) ==
    ~\E j \in (k + 1)..Len(rows) :
        DepthOf(rows[j]) = DepthOf(rows[k]) /\ ParentRow(rows, j) = ParentRow(rows, k)

\* what 'tree' must have written for the nodes ns: out is the lines after the echo
IsTreeView(out, ns) ==
    LET rows == [k \in 1..(Len(out) - 1) |-> out[k + 1].text]
    IN /\ Len(out) = Cardinality(ns) + 1
       /\ \A k \in 1..Len(out) : out[k].type = "OUTPUT"
       /\ out[1].text = indent \o <<"root">>
       /\ \A k \in 1..Len(rows) : WellFormedRow(rows[k])
       /\ \A k \in 1..Len(rows) :
              DepthOf(rows[k]) <= (IF k = 1 THEN 1 ELSE DepthOf(rows[k - 1]) + 1)
       /\ {RowPath(rows, k) : k \in 1..Len(rows)} = ns
       /\ \A j, k \in 1..Len(rows) :
              RowPath(rows, j) \in Prefixes(RowPath(rows, k)) =>
                  /\ j <= k
                  /\ \A m \in j..k : RowPath(rows, j) \in Prefixes(RowPath(rows, m))
       /\ \A k \in 1..Len(rows) :
              rows[k][ConnAt(rows[k])] = (IF IsLastChild(rows, k) THEN CORNER ELSE TEE)
       /\ \A k \in 1..Len(rows) : \A i \in 1..(DepthOf(rows[k]) - 1) :
              ColumnOf(rows[k], i) = (IF IsLastChild(rows, AncestorRow(rows, k, i))
                                      THEN indent ELSE inner_indent)

C6_Step ==
    \A r \in Regions :
        Executed(r, CmdTree) => IsTreeView(Output(r), Nodes) /\ ret' = "FINISHED"

\* C6: 'tree' without argument writes a header line for root and then exactly one line per
\* node of the hierarchy, labelled with the node's last segment, in depth-first pre-order;
\* the last child of a parent has the corner connector and every other child the tee; the
\* column of an ancestor that is not a last child is a vertical bar, that of a last child
\* is blank.
C6_TreeView == [][C6_Step]_vars

\* C6's case: the tree of a, a.b, b and b.a was written: b below a sibling that is not
\* the last, behind a bar, and a below the last sibling, behind a blank column
C6_Witness ==
    /\ Nodes = {NameA, NameAB, NameB, NameBA}
    /\ \E i \in 1..Len(scrollback[1]) :
           /\ scrollback[1][i] = Echo(CmdTree)
           /\ Len(scrollback[1]) >= i + 5
           /\ scrollback[1][i + 2].text = indent \o <<TEE, DASH, DASH, SP>> \o NameA
           /\ scrollback[1][i + 3].text =
                  indent \o inner_indent \o <<CORNER, DASH, DASH, SP>> \o NameB
           /\ scrollback[1][i + 5].text = indent \o indent \o <<CORNER, DASH, DASH, SP>> \o NameA

----------------------------------------------------------------------------
(* Completion: LoggingCmd.complete and autocomplete *)

\* the characters of the model in the order of their code points
CodeOrder ==
    <<SP, "!", DOT, "?", "_", "a", "b", "c", "d", "e", "f", "g", "h", "i", "j", "k", "l", "m",
      "n", "o", "p", "q", "r", "s", "t", "u", "v", "w", "x", "y", "z">>

ord(c) == CHOOSE i \in 1..Len(CodeOrder) : CodeOrder[i] = c

\* a < b for strings: at the first place they differ, or a a proper prefix of b
RECURSIVE str_lt(_, _)
str_lt(a, b) ==
    IF b = <<>> THEN FALSE
    ELSE IF a = <<>> THEN TRUE
    ELSE IF Head(a) # Head(b) THEN ord(Head(a)) < ord(Head(b))
    ELSE str_lt(Tail(a), Tail(b))

\* min(m) and max(m) of a non-empty list of strings
min(m) == CHOOSE s \in Keys(m) : \A t \in Keys(m) : ~str_lt(t, s)
max(m) == CHOOSE s \in Keys(m) : \A t \in Keys(m) : ~str_lt(s, t)

\* longest_common_prefix taking the greatest string instead of comparing it with the least
longest_common_prefix_max(m) == IF m = <<>> THEN <<>> ELSE max(m)

\* longest_common_prefix(m): min(m) up to the first place where max(m) differs from it
\* (min(m) being the smaller, the two differ before max(m) ends unless min(m) is a prefix
\* of max(m), so s2[i] never fails)
longest_common_prefix(m) ==
    IF m = <<>> THEN <<>>
    ELSE LET s1 == min(m)
             s2 == max(m)
             diff == {i \in 1..Len(s1) : i > Len(s2) \/ s1[i] # s2[i]}
         IN IF diff = {} THEN s1
            ELSE UpTo(s1, (CHOOSE i \in diff : \A j \in diff : i <= j) - 1)

\* the loop of get_word_span from index i of line + ' ' on (0-based, as enumerate counts)
RECURSIVE word_span(_, _, _, _, _)
word_span(padded, current_pos, i, begidx, endidx) ==
    IF i >= Len(padded) THEN [begidx |-> begidx, endidx |-> endidx]
    ELSE IF padded[i + 1] = SP
         THEN IF i >= current_pos THEN [begidx |-> begidx, endidx |-> i]
              ELSE word_span(padded, current_pos, i + 1, i + 1, i)
         ELSE word_span(padded, current_pos, i + 1, begidx, endidx)

\* LoggingCmd.get_word_span(line, current_pos)
get_word_span(line, current_pos) == word_span(line \o <<SP>>, current_pos, 0, 0, 0)

\* the loop of complete_loggers over the names, from the i-th on, with the options so far
RECURSIVE complete_loop(_, _, _, _)
complete_loop(names, text, i, options) ==
    IF i > Len(names) THEN options
    ELSE IF startswith(names[i], text)
         THEN LET logger == text \o split1(From(names[i], Len(text)), DOT)[1]
              IN complete_loop(names, text, i + 1,
                               IF logger \in Keys(options) THEN options
                               ELSE Append(options, logger))
         ELSE complete_loop(names, text, i + 1, options)

\* complete_loggers(self, text) as _logger_completer_factory(watched_only) makes it
complete_loggers(self, text, watched_only) ==
    LET names == IF watched_only THEN [i \in 1..Len(self.handlers) |-> self.handlers[i].name]
                 ELSE get_loggers_flat
    IN complete_loop(names, text, 1, <<>>)

\* Cmd.completenames(text): the commands that start with text
completenames(text) == SelectSeq(get_names, LAMBDA a : startswith(a, text))

\* Cmd.completedefault
completedefault == <<>>

\* str.split(): the words between runs of whitespace
RECURSIVE split_ws(_)
split_ws(s) ==
    LET t == lstrip(s)
        n == IF \E i \in 1..Len(t) : IsSpace(t[i])
             THEN (CHOOSE i \in 1..Len(t) :
                       IsSpace(t[i]) /\ \A j \in 1..(i - 1) : ~IsSpace(t[j])) - 1
             ELSE Len(t)
    IN IF t = <<>> THEN <<>> ELSE <<UpTo(t, n)>> \o split_ws(From(t, n))

\* LoggingCmd.complete_set_level(text, line, begidx, endidx)
complete_set_level(self, text, line, begidx) ==
    LET prefix == split_ws(strip(UpTo(line, begidx)))
        names == [i \in 1..Len(LEVELS) |-> LEVELS[i].name]
    IN IF Len(prefix) = 1 THEN complete_loggers(self, text, TRUE)
       ELSE SelectSeq(names, LAMBDA level : startswith(level, text))

\* LoggingCmd.complete(line, current_pos): the options, begidx and endidx, or the exception
\* that escapes: parseline yields None for the command of a blank line or of one that
\* starts with '!', and 'complete_' + None is a TypeError
complete(self, line, current_pos) ==
    LET begidx == get_word_span(line, current_pos).begidx
        endidx == current_pos
        text == SubSeq(line, begidx + 1, endidx)
        p == parseline(line)
        done(options) == [exc |-> "", options |-> options, begidx |-> begidx,
                          endidx |-> endidx]
    IN IF begidx > 0
       THEN IF p.none
            THEN [exc |-> "TypeError", options |-> <<>>, begidx |-> begidx, endidx |-> endidx]
            ELSE IF p.cmd = <<>> THEN done(completedefault)
            ELSE IF p.cmd \in {CmdListLoggers, CmdLl, CmdTree, CmdWatch}
            THEN done(complete_loggers(self, text, FALSE))
            ELSE IF p.cmd = CmdUnwatch THEN done(complete_loggers(self, text, TRUE))
            ELSE IF p.cmd = CmdSetLevel THEN done(complete_set_level(self, text, line, begidx))
            ELSE done(completedefault)
       ELSE done(completenames(text))

\* autocomplete(context) in region
Autocomplete(region) ==
    /\ ScrollLen(scrollback, Regions) < MaxScroll
    /\ LET current_line == history[region]
           gc == get_console(region)
           cursor_pos == current_line.current_character
           line == current_line.body
           c == complete(gc.cmds[gc.console], line, cursor_pos)
           prefix == From(longest_common_prefix(c.options), c.endidx - c.begidx)
           body == UpTo(line, cursor_pos) \o prefix \o From(line, cursor_pos)
       IN /\ get_console_attrs' = gc.attrs
          /\ cmds' = gc.cmds
          /\ IF c.exc # ""
             THEN /\ ret' = c.exc
                  /\ UNCHANGED <<history, scrollback>>
             ELSE /\ ret' = "CANCELLED"
                  /\ history' = [history EXCEPT ![region] =
                                    [body |-> body,
                                     current_character |-> cursor_pos + Len(prefix)]]
                  /\ scrollback' =
                         IF c.options # <<>>
                         THEN [scrollback EXCEPT ![region] =
                                  @ \o add_scrollback(PROMPT \o body, "INPUT")
                                    \o add_scrollback(join(c.options, <<NL>>), "INFO")]
                         ELSE scrollback
    /\ UNCHANGED <<loggerDict, loggers, window_manager, written>>

\* the lines the user types to have them completed
CompleteLines ==
    {<<"w", "a", "t">>, <<"w", "a", "t", "x", "y">>, <<"l">>, <<"u">>,
     Line(CmdWatch, NameA), Line(CmdWatch, <<"a", DOT>>), Line(CmdTree, NameB),
     Line(CmdLl, <<>>), Line(CmdUnwatch, NameA), Line(CmdUnwatch, <<>>),
     Line(CmdSetLevel, NameA), Line(CmdSetLevel, NameA \o <<SP, "e">>),
     <<SP>>, <<"!", SP, "x">>, <<DOT, SP, "x">>, <<"z", SP, "a">>}

\* the user types a line into the blank input line of region and leaves the cursor
\* somewhere in it
Type(region, body, current_character) ==
    /\ history[region] = BlankLine
    /\ history' = [history EXCEPT ![region] =
                      [body |-> body, current_character |-> current_character]]
    /\ ret' = "none"
    /\ UNCHANGED <<loggerDict, loggers, window_manager, get_console_attrs, cmds, scrollback,
                   written>>

NextComplete ==
    \/ \E body \in CompleteLines : \E current_character \in 0..Len(body) :
           Type(1, body, current_character)
    \/ Autocomplete(1)
    \/ Execute(1, history[1].body)

SpecComplete == Init /\ [][NextComplete]_vars

\* the part of the word under the cursor that is already typed: line[begidx:cursor], the
\* characters between the last space before the cursor and the cursor
TypedPart(line, cursor) ==
    LET begidx == CHOOSE b \in 0..cursor :
                      /\ \A i \in (b + 1)..cursor : line[i] # SP
                      /\ b > 0 => line[b] = SP
    IN SubSeq(line, begidx + 1, cursor)

\* p is the longest string every string of the set opts starts with
IsLongestCommonPrefix(p, opts) ==
    /\ \A o \in opts : startswith(o, p)
    /\ \/ \E o \in opts : Len(o) = Len(p)
       \/ \E o1, o2 \in opts : o1[Len(p) + 1] # o2[Len(p) + 1]

\* a step of autocomplete in region r: what it made of the line, the cursor and the
\* scrollback, given the options complete finds (none when complete fails)
AutocompleteStep(r) ==
    LET line == history[r].body
        cursor == history[r].current_character
        options == complete(cmds'[get_console_attrs'.consoles[r]], line, cursor).options
        inserted == SubSeq(history'[r].body, cursor + 1,
                           cursor + Len(history'[r].body) - Len(line))
    IN /\ Len(history'[r].body) >= Len(line)
       /\ history'[r].body = UpTo(line, cursor) \o inserted \o From(line, cursor)
       /\ history'[r].current_character = cursor + Len(inserted)
       /\ IF options = <<>>
          THEN /\ inserted = <<>>
               /\ scrollback' = scrollback
          ELSE /\ IsLongestCommonPrefix(TypedPart(line, cursor) \o inserted, Keys(options))
               /\ scrollback'[r] =
                      scrollback[r] \o <<[text |-> PROMPT \o history'[r].body, type |-> "INPUT"]>>
                      \o [i \in 1..Len(options) |-> [text |-> options[i], type |-> "INFO"]]
       /\ \A q \in Regions \ {r} : history'[q] = history[q] /\ scrollback'[q] = scrollback[q]

C8_Step == ret' \in {"CANCELLED", "TypeError"} => AutocompleteStep(1)

====
